---- MODULE Spec2Model ----
(***************************************************************************)
(* A model of nativefs (src/main.cc): the native copy and move entry       *)
(* points of the module, the Args object they build from the JavaScript    *)
(* arguments, the shared buffered Copy loop with its retrying doWrite, and  *)
(* the callbacks they invoke.  The file system, errno and the JavaScript   *)
(* callbacks are the environment: every system call the code makes is a    *)
(* step whose result is chosen among the results the call can have.        *)
(***************************************************************************)
EXTENDS Integers, Sequences, FiniteSets, TLC

(***************************************************************************)
(* Bounds of the model.                                                    *)
(***************************************************************************)
\* The longest file content.
MaxLen == 3
\* The most bytes one read() delivers (a read may always return fewer bytes
\* than the buffer holds).
MaxChunk == 2
\* The most calls of doWrite on one chunk that transfer nothing.
MaxDepth == 2
\* The largest st_size the throttling of progress updates is checked for.
MaxSize == 120

\* const int BUFFER_SIZE = 16384;
BUFFER_SIZE == 16384

(***************************************************************************)
(* The environment: paths, devices, files.                                 *)
(***************************************************************************)
\* "a" and "b" live on one device, "c" on another.
Paths == {"a", "b", "c"}
DevOf(p) == IF p = "c" THEN 2 ELSE 1

\* st_mode values.
Modes == {1, 2}
\* The mode of the file a path names, if any, before the first call.
InitMode(p) == IF p = "b" THEN 2 ELSE 1

\* File contents: byte i of a content is the number i, so that a lost, a
\* duplicated or a reordered byte changes the content.
Bytes(n) == [i \in 1..n |-> i]
Contents == {Bytes(n) : n \in 0..MaxLen}

NoFile == [exists |-> FALSE, content |-> <<>>, mode |-> 0]
File(c, m) == [exists |-> TRUE, content |-> c, mode |-> m]
Files == {File(c, m) : c \in Contents, m \in Modes}

Min(x, y) == IF x < y THEN x ELSE y

\* The file a path names in file system f (the empty string names none).
Lookup(f, p) == IF p \in Paths THEN f[p] ELSE NoFile

\* strerror(): the text of an errno value.
strerror(e) ==
    CASE e = "ENOENT" -> "No such file or directory"
      [] e = "EACCES" -> "Permission denied"
      [] e = "EIO"    -> "Input/output error"
      [] OTHER        -> "Success"

(***************************************************************************)
(* JavaScript values and argument lists.                                   *)
(***************************************************************************)
Str(s) == [type |-> "string", str |-> s]
Fn     == [type |-> "function", str |-> ""]
Num    == [type |-> "number", str |-> ""]

IsString(v)   == v.type = "string"
IsFunction(v) == v.type = "function"

\* Well-formed calls: two strings (possibly empty), a function, and possibly
\* a second function.
PathInfos ==
    {<<Str(s), Str(d), Fn>> : s \in Paths, d \in Paths}
    \cup {<<Str(s), Str(d), Fn, Fn>> : s \in Paths, d \in Paths}
    \cup {<<Str(""), Str("b"), Fn>>, <<Str("a"), Str(""), Fn, Fn>>}

\* Calls the Args constructor rejects on the types or the count of arguments.
BadInfos ==
    { <<Str("a"), Str("b")>>,
      <<Num, Str("b"), Fn>>,
      <<Str("a"), Num, Fn>>,
      <<Str("a"), Str("b"), Num>>,
      <<Str("a"), Str("b"), Fn, Num>> }

Infos == PathInfos \cup BadInfos

(***************************************************************************)
(* Events: what the operation did, in order.                               *)
(***************************************************************************)
Event(e, t, c, n, x, p, o) ==
    [ev |-> e, tgt |-> t, completed |-> c, total |-> n, err |-> x,
     path |-> p, ok |-> o]

\* A system call on a path, and whether it succeeded.
SysEv(name, p, o) == Event(name, 0, 0, 0, "", p, o)
\* A system call on a path that set errno to e, or succeeded (e = "").
SysErr(name, p, e) == Event(name, 0, 0, 0, e, p, e = "")
\* A call of the function passed as argument number t.
\* (completed, total) for a progress update; (null, true) for a completion,
\* (errorText, false) for an error: err and ok are the two values passed.
ProgressEv(t, c, n) == Event("progress", t, c, n, "", "", TRUE)
CompleteEv(t)       == Event("complete", t, 0, 0, "null", "", TRUE)
ErrorEv(t, x)       == Event("error", t, 0, 0, x, "", FALSE)
\* The process died calling through an empty handle.
CrashEv             == Event("crash", 0, 0, 0, "", "", FALSE)

VARIABLES
    fs,        \* the file system: path -> file
    errno,     \* the C errno
    pc,        \* where the running entry point is
    op,        \* "copy" or "move": the entry point called
    info,      \* the JavaScript arguments of the call
    args,      \* the Args object built from them
    fd,        \* the handles in and out: "none", "open" or "closed"
    st,        \* the source's stat: st_size, st_mode, st_dev
    cp,        \* the locals of Copy(fd_in, fd_out, inputSize, args, removeWhenDone)
    log,       \* history: the events of the running call
    orig,      \* history: the file system when the call began
    repeat,    \* history: this call repeats the previous call, which failed
    chain      \* history: this call copies the file the previous call made

vars == <<fs, errno, pc, op, info, args, fd, st, cp, log, orig, repeat, chain>>


(***************************************************************************)
(* The Args object.                                                        *)
(***************************************************************************)
\* Utf8String::length() of a string value (every path is one character).
Utf8Length(s) == IF s = "" THEN 0 ELSE 1

\* get(value): the string of a value; it throws, and returns "", when the
\* value is no string or an empty one.
get(value) ==
    IF ~IsString(value)
    THEN [value |-> "", thrown |-> "arg must be a string"]
    ELSE IF Utf8Length(value.str) <= 0
         THEN [value |-> "", thrown |-> "arg must be a non-empty string"]
         ELSE [value |-> value.str, thrown |-> "none"]

\* The members of an Args whose constructor has assigned none of them: the
\* strings are empty, the function handles are empty (0), and the bool
\* UpdateProgress has no value.
DefaultArgs ==
    [Source |-> "", Destination |-> "", ProgressCallback |-> 0,
     ResultCallback |-> 0, UpdateProgress |-> "indeterminate",
     thrown |-> "none"]

\* The argument (by position) ResultCallback is taken from.
ResultCallbackArg_Third(i) == 3
ResultCallbackArg(i) == IF Len(i) > 3 THEN 4 ELSE 3

\* The argument (by position) ProgressCallback is taken from.
ProgressCallbackArg(i) == 3

\* Args::Args(info).  A throw leaves a JavaScript exception pending and
\* returns from the constructor; the members not yet assigned keep their
\* default.
Args(i) ==
    IF Len(i) < 3
    THEN [DefaultArgs EXCEPT !.thrown = "Not enough arguments"]
    ELSE IF ~IsString(i[1])
    THEN [DefaultArgs EXCEPT !.thrown = "First argument is not a path"]
    ELSE IF ~IsString(i[2])
    THEN [DefaultArgs EXCEPT !.thrown = "Second argument is not a path"]
    ELSE IF ~IsFunction(i[3])
    THEN [DefaultArgs EXCEPT !.thrown = "Missing result callback"]
    ELSE IF Len(i) > 3 /\ ~IsFunction(i[4])
    THEN [DefaultArgs EXCEPT !.thrown = "Unknown arguments"]
    ELSE LET s == get(i[1])
             d == get(i[2])
         IN  [Source           |-> s.value,
              Destination      |-> d.value,
              ProgressCallback |-> ProgressCallbackArg(i),
              ResultCallback   |-> ResultCallbackArg(i),
              UpdateProgress   |-> Len(i) > 3,
              thrown           |-> IF d.thrown # "none" THEN d.thrown ELSE s.thrown]

(***************************************************************************)
(* The callbacks.                                                          *)
(***************************************************************************)
\* SendProgressUpdate(args, completed, total): the events it adds.
SendProgressUpdate(a, completed, total) ==
    IF a.UpdateProgress
    THEN <<ProgressEv(a.ProgressCallback, completed, total)>>
    ELSE <<>>

\* SendComplete(args).
SendComplete(a) == <<CompleteEv(a.ResultCallback)>>

\* SendError(args, errorText): the event sequences it can add.  Calling
\* through an empty ResultCallback handle is undefined: the process dies or
\* nothing is called.  With a JavaScript exception pending the call may be
\* made or refused.
SendError(a, errorText) ==
    IF a.ResultCallback = 0
    THEN {<<CrashEv>>, <<>>}
    ELSE IF a.thrown # "none"
    THEN {<<ErrorEv(a.ResultCallback, errorText)>>, <<>>}
    ELSE {<<ErrorEv(a.ResultCallback, errorText)>>}

(***************************************************************************)
(* The system calls: the results each can have.  err = "" is success.      *)
(***************************************************************************)
\* open(path, O_RDONLY)
OpenReadErrs(f, p) ==
    IF Lookup(f, p).exists THEN {"", "EACCES"} ELSE {"ENOENT"}

\* open(path, O_WRONLY | O_CREAT | O_TRUNC, mode)
OpenWriteErrs(f, p) ==
    IF p \in Paths THEN {"", "EACCES"} ELSE {"ENOENT"}

\* What a successful open(path, O_WRONLY | O_CREAT | O_TRUNC, mode) does: an
\* existing file is emptied and keeps its mode, a missing one is created.
OpenTrunc_NoTrunc(f, p, mode) ==
    [f EXCEPT ![p] = IF f[p].exists THEN f[p] ELSE File(<<>>, mode)]
OpenTrunc(f, p, mode) ==
    [f EXCEPT ![p] = IF f[p].exists THEN [f[p] EXCEPT !.content = <<>>]
                     ELSE File(<<>>, mode)]

\* remove(path)
Remove(f, p) ==
    IF Lookup(f, p).exists
    THEN {[fs |-> [f EXCEPT ![p] = NoFile], err |-> ""],
          [fs |-> f, err |-> "EACCES"]}
    ELSE {[fs |-> f, err |-> "ENOENT"]}

\* rename(from, to)
Rename(f, from, to) ==
    IF ~Lookup(f, from).exists \/ to \notin Paths
    THEN {[fs |-> f, err |-> "ENOENT"]}
    ELSE {[fs |-> IF from = to THEN f
                  ELSE [f EXCEPT ![to] = f[from], ![from] = NoFile],
           err |-> ""],
          [fs |-> f, err |-> "EACCES"]}

\* st_size as fstat reports it: the length of the file, or 0 for a file
\* whose size the system does not know (a procfs file, a device).
StatSizes(file) == {Len(file.content), 0}

SetErrno(old, err) == IF err = "" THEN old ELSE err

(***************************************************************************)
(* The state after the module is loaded: some files exist, nothing runs.   *)
(***************************************************************************)
NoStat == [size |-> 0, mode |-> 0, dev |-> 0]

\* The locals of Copy before it is entered.  buffer is what the last read
\* delivered; data (an offset into buffer) and datalen are the arguments of
\* the running doWrite and depth the number of calls of doWrite below the
\* first on the stack; inOff is the read position of fd_in; sent counts the
\* progress updates Copy has sent.
NoCopy ==
    [inputSize |-> 0, bytesPerUpdate |-> 0, progress |-> 0, bytes_read |-> 0,
     sinceLastUpdate |-> 0, removeWhenDone |-> FALSE, inOff |-> 0,
     buffer |-> <<>>, data |-> 0, datalen |-> 0, depth |-> 0, io |-> FALSE,
     sent |-> 0]

NoChain == [on |-> FALSE, A |-> "", first |-> [p \in Paths |-> NoFile]]

Init ==
    /\ fs \in [Paths -> Files \cup {NoFile}]
    /\ \A p \in Paths : fs[p].exists => fs[p].mode = InitMode(p)
    /\ errno = "0"
    /\ pc = "idle"
    /\ op = "none"
    /\ info = <<>>
    /\ args = DefaultArgs
    /\ fd = [in |-> "none", out |-> "none"]
    /\ st = NoStat
    /\ cp = NoCopy
    /\ log = <<>>
    /\ orig = fs
    /\ repeat = FALSE
    /\ chain = NoChain

\* The running call has signalled failure / success through its callback.
SignalledFailure ==
    \E k \in 1..Len(log) : log[k].ev = "error"
SignalledSuccess == \E k \in 1..Len(log) : log[k].ev = "complete"

(***************************************************************************)
(* NAN_METHOD(Copy) and NAN_METHOD(Move): entry, Args args(info).          *)
(***************************************************************************)
Begin ==
    /\ pc = "idle"
    /\ \E o \in {"copy", "move"}, i \in Infos :
          /\ op' = o
          /\ info' = i
          /\ args' = Args(i)
    /\ pc' = "open_in"
    /\ log' = <<>>
    /\ orig' = fs
    /\ repeat' = FALSE
    /\ chain' = NoChain
    /\ UNCHANGED <<fs, errno, fd, st, cp>>

\* The caller, told of a failure, makes the same call again.
Retry ==
    /\ pc = "done"
    /\ SignalledFailure
    /\ ~repeat
    /\ ~chain.on
    /\ pc' = "open_in"
    /\ fd' = [in |-> "none", out |-> "none"]
    /\ st' = NoStat
    /\ cp' = NoCopy
    /\ log' = <<>>
    /\ orig' = fs
    /\ repeat' = TRUE
    /\ UNCHANGED <<fs, errno, op, info, args, chain>>

\* The caller, told that copy(A, B) succeeded, copies B on to the third path:
\* copy(B, C) with the same callbacks.
ThirdPath(a, b) == CHOOSE c \in Paths : c # a /\ c # b
Chain ==
    /\ pc = "done"
    /\ op = "copy"
    /\ SignalledSuccess
    /\ ~chain.on
    /\ ~repeat
    /\ args.Source \in Paths /\ args.Destination \in Paths
    /\ args.Source # args.Destination
    /\ LET i == [info EXCEPT
                    ![1] = Str(args.Destination),
                    ![2] = Str(ThirdPath(args.Source, args.Destination))]
       IN  /\ info' = i
           /\ args' = Args(i)
    /\ pc' = "open_in"
    /\ fd' = [in |-> "none", out |-> "none"]
    /\ st' = NoStat
    /\ cp' = NoCopy
    /\ log' = <<>>
    /\ orig' = fs
    /\ chain' = [on |-> TRUE, A |-> args.Source, first |-> orig]
    /\ UNCHANGED <<fs, errno, op, repeat>>

\* int in = open(args.Source, O_RDONLY | O_BINARY); if (in < 0) goto error
OpenSource ==
    /\ pc = "open_in"
    /\ \E e \in OpenReadErrs(fs, args.Source) :
          /\ errno' = SetErrno(errno, e)
          /\ log' = Append(log, SysErr("open_in", args.Source, e))
          /\ IF e = ""
             THEN /\ fd' = [fd EXCEPT !.in = "open"]
                  /\ pc' = "fstat_in"
             ELSE /\ fd' = fd
                  /\ pc' = "path_error"
    /\ UNCHANGED <<fs, op, info, args, st, cp, orig, repeat, chain>>

\* if (fstat(in, &st) != 0) { close(in); goto error; }
StatSource ==
    /\ pc = "fstat_in"
    /\ \/ \E sz \in StatSizes(Lookup(fs, args.Source)) :
             /\ st' = [size |-> sz, mode |-> Lookup(fs, args.Source).mode,
                       dev |-> DevOf(args.Source)]
             /\ log' = Append(log, SysEv("fstat_in", args.Source, TRUE))
             /\ pc' = "open_out"
             /\ UNCHANGED <<errno, fd>>
       \/ /\ errno' = "EIO"
          /\ fd' = [fd EXCEPT !.in = "closed"]
          /\ log' = log \o <<SysErr("fstat_in", args.Source, "EIO"),
                             SysEv("close_in", args.Source, TRUE)>>
          /\ pc' = "path_error"
          /\ st' = st
    /\ UNCHANGED <<fs, op, info, args, cp, orig, repeat, chain>>

\* Copy(in, out, inputSize, args, removeWhenDone): its locals on entry.
EnterCopy(inputSize, removeWhenDone) ==
    [NoCopy EXCEPT !.inputSize = inputSize,
                   !.bytesPerUpdate = inputSize \div 100,
                   !.removeWhenDone = removeWhenDone]

\* out = open(args.Destination, O_WRONLY | O_CREAT | O_TRUNC | O_BINARY,
\* st.st_mode); if (out < 0) { close(in); goto error; }.  Copy then calls
\* Copy(in, out, st.st_size, args); Move goes on to fstat(out).
OpenDestination_NoClose ==
    /\ pc = "open_out"
    /\ \E e \in OpenWriteErrs(fs, args.Destination) :
          /\ errno' = SetErrno(errno, e)
          /\ IF e = ""
             THEN /\ fs' = OpenTrunc(fs, args.Destination, st.mode)
                  /\ fd' = [fd EXCEPT !.out = "open"]
                  /\ log' = Append(log, SysEv("open_out", args.Destination, TRUE))
                  /\ pc' = IF op = "copy" THEN "read" ELSE "fstat_out"
                  /\ cp' = IF op = "copy" THEN EnterCopy(st.size, FALSE) ELSE cp
             ELSE /\ fs' = fs
                  /\ fd' = fd
                  /\ log' = Append(log, SysErr("open_out", args.Destination, e))
                  /\ pc' = "path_error"
                  /\ cp' = cp
    /\ UNCHANGED <<op, info, args, st, orig, repeat, chain>>

OpenDestination ==
    /\ pc = "open_out"
    /\ \E e \in OpenWriteErrs(fs, args.Destination) :
          /\ errno' = SetErrno(errno, e)
          /\ IF e = ""
             THEN /\ fs' = OpenTrunc(fs, args.Destination, st.mode)
                  /\ fd' = [fd EXCEPT !.out = "open"]
                  /\ log' = Append(log, SysEv("open_out", args.Destination, TRUE))
                  /\ pc' = IF op = "copy" THEN "read" ELSE "fstat_out"
                  /\ cp' = IF op = "copy" THEN EnterCopy(st.size, FALSE) ELSE cp
             ELSE /\ fs' = fs
                  /\ fd' = [fd EXCEPT !.in = "closed"]
                  /\ log' = log \o <<SysErr("open_out", args.Destination, e),
                                     SysEv("close_in", args.Source, TRUE)>>
                  /\ pc' = "path_error"
                  /\ cp' = cp
    /\ UNCHANGED <<op, info, args, st, orig, repeat, chain>>

\* Move: if (fstat(out, &out_stats) != 0) { close(in); close(out); goto
\* moveError; }, then the choice between the rename and the copy.
StatDestination ==
    /\ pc = "fstat_out"
    /\ \/ /\ log' = Append(log, SysEv("fstat_out", args.Destination, TRUE))
          /\ IF st.dev = DevOf(args.Destination)
             THEN pc' = "same_device" /\ cp' = cp
             ELSE pc' = "read" /\ cp' = EnterCopy(st.size, TRUE)
          /\ UNCHANGED <<errno, fd>>
       \/ /\ errno' = "EIO"
          /\ fd' = [in |-> "closed", out |-> "closed"]
          /\ log' = log \o <<SysErr("fstat_out", args.Destination, "EIO"),
                             SysEv("close_in", args.Source, TRUE),
                             SysEv("close_out", args.Destination, TRUE)>>
          /\ pc' = "path_error"
          /\ cp' = cp
    /\ UNCHANGED <<fs, op, info, args, st, orig, repeat, chain>>

\* Move, same device: close(in); close(out); remove(args.Destination);
\* rename(args.Source, args.Destination); SendProgressUpdate(args,
\* inputSize, inputSize); SendComplete(args).  Neither result is looked at.
SameDevice ==
    /\ pc = "same_device"
    /\ \E rm \in Remove(fs, args.Destination) :
       \E rn \in Rename(rm.fs, args.Source, args.Destination) :
          /\ fs' = rn.fs
          /\ errno' = SetErrno(SetErrno(errno, rm.err), rn.err)
          /\ log' = log
                \o <<SysEv("close_in", args.Source, TRUE),
                     SysEv("close_out", args.Destination, TRUE),
                     SysErr("remove", args.Destination, rm.err),
                     SysErr("rename", args.Source, rn.err)>>
                \o SendProgressUpdate(args, st.size, st.size)
                \o SendComplete(args)
    /\ fd' = [in |-> "closed", out |-> "closed"]
    /\ pc' = "done"
    /\ UNCHANGED <<op, info, args, st, cp, orig, repeat, chain>>

\* The sizes a successful read(fd_in, buffer, sizeof(buffer)) can return:
\* 0 at the end of the file, else any count up to what is left.
ReadSizes(file, off) ==
    IF Len(file.content) <= off THEN {0}
    ELSE 1..Min(Len(file.content) - off, Min(BUFFER_SIZE, MaxChunk))

\* while ((bytes_read = read(fd_in, buffer, sizeof(buffer))) > 0): one read.
\* A chunk goes to doWrite(fd_out, buffer, bytes_read).
Read ==
    /\ pc = "read"
    /\ \/ \E n \in ReadSizes(Lookup(fs, args.Source), cp.inOff) :
             /\ cp' = IF n > 0
                      THEN [cp EXCEPT
                              !.bytes_read = n,
                              !.buffer = SubSeq(Lookup(fs, args.Source).content,
                                                cp.inOff + 1, cp.inOff + n),
                              !.inOff = cp.inOff + n,
                              !.data = 0,
                              !.datalen = n,
                              !.depth = 0,
                              !.io = TRUE]
                      ELSE [cp EXCEPT !.bytes_read = 0, !.io = TRUE]
             /\ pc' = IF n > 0 THEN "write" ELSE "finish"
             /\ UNCHANGED <<errno, log>>
       \/ /\ cp' = [cp EXCEPT !.bytes_read = -1, !.io = TRUE]
          /\ errno' = "EIO"
          /\ log' = Append(log, SysErr("read", args.Source, "EIO"))
          /\ pc' = "fd_error"
    /\ UNCHANGED <<fs, op, info, args, fd, st, orig, repeat, chain>>

\* doWrite's call of itself after a short write: doWrite(fd, data + written,
\* datalen - written).
doWriteRetry_SameData(data, datalen, written) ==
    [data |-> data, datalen |-> datalen - written]
doWriteRetry(data, datalen, written) ==
    [data |-> data + written, datalen |-> datalen - written]

\* The loop body after doWrite returned: progress += bytes_read;
\* sinceLastUpdate += bytes_read; if (sinceLastUpdate > bytesPerUpdate) {
\* SendProgressUpdate(args, progress, inputSize); sinceLastUpdate = 0; }
ChunkDone_AtLeast(c, a) ==
    LET p == c.progress + c.bytes_read
        s == c.sinceLastUpdate + c.bytes_read
    IN  IF s >= c.bytesPerUpdate
        THEN [cp |-> [c EXCEPT !.progress = p, !.sinceLastUpdate = 0],
              events |-> SendProgressUpdate(a, p, c.inputSize)]
        ELSE [cp |-> [c EXCEPT !.progress = p, !.sinceLastUpdate = s],
              events |-> <<>>]
ChunkDone(c, a) ==
    LET p == c.progress + c.bytes_read
        s == c.sinceLastUpdate + c.bytes_read
    IN  IF s > c.bytesPerUpdate
        THEN [cp |-> [c EXCEPT !.progress = p, !.sinceLastUpdate = 0],
              events |-> SendProgressUpdate(a, p, c.inputSize)]
        ELSE [cp |-> [c EXCEPT !.progress = p, !.sinceLastUpdate = s],
              events |-> <<>>]

\* doWrite(fd, data, datalen): one write(fd, data, datalen), which transfers
\* written bytes, -1 <= written <= datalen.  -1 is returned to the loop (goto
\* copyByFdError); a short write calls doWrite again; a full one returns.
Write ==
    /\ pc = "write"
    /\ \/ \E written \in 0..cp.datalen :
             /\ written = 0 => cp.depth < MaxDepth
             /\ fs' = [fs EXCEPT ![args.Destination].content =
                          @ \o SubSeq(cp.buffer, cp.data + 1, cp.data + written)]
             /\ IF written < cp.datalen
                THEN LET r == doWriteRetry(cp.data, cp.datalen, written)
                     IN  /\ cp' = [cp EXCEPT !.data = r.data,
                                             !.datalen = r.datalen,
                                             !.depth = cp.depth + 1]
                         /\ pc' = "write"
                         /\ log' = log
                ELSE LET d == ChunkDone(cp, args)
                     IN  /\ cp' = [d.cp EXCEPT !.depth = 0,
                                               !.sent = @ + Len(d.events)]
                         /\ pc' = "read"
                         /\ log' = log \o d.events
             /\ errno' = errno
       \/ /\ errno' = "EIO"
          /\ log' = Append(log, SysErr("write", args.Destination, "EIO"))
          /\ pc' = "fd_error"
          /\ cp' = [cp EXCEPT !.depth = 0]
          /\ fs' = fs
    /\ UNCHANGED <<op, info, args, fd, st, orig, repeat, chain>>

\* // send one last progress update
LastProgressUpdate_Progress(a, c) ==
    SendProgressUpdate(a, c.progress, c.inputSize)
LastProgressUpdate(a, c) ==
    SendProgressUpdate(a, c.inputSize, c.inputSize)

\* Copy after the loop ended with bytes_read = 0: the last progress update,
\* close(fd_in); fsync(fd_out); close(fd_out); if (removeWhenDone)
\* remove(args.Source); SendComplete(args).
Finish_EarlyComplete ==
    /\ pc = "finish"
    /\ \E rm \in (IF cp.removeWhenDone THEN Remove(fs, args.Source)
                  ELSE {[fs |-> fs, err |-> ""]}) :
          /\ fs' = rm.fs
          /\ errno' = SetErrno(errno, rm.err)
          /\ log' = log
                \o LastProgressUpdate(args, cp)
                \o SendComplete(args)
                \o <<SysEv("close_in", args.Source, TRUE),
                     SysEv("fsync", args.Destination, TRUE),
                     SysEv("close_out", args.Destination, TRUE)>>
                \o (IF cp.removeWhenDone
                    THEN <<SysErr("remove", args.Source, rm.err)>>
                    ELSE <<>>)
    /\ fd' = [in |-> "closed", out |-> "closed"]
    /\ cp' = [cp EXCEPT !.sent = @ + Len(LastProgressUpdate(args, cp))]
    /\ pc' = "done"
    /\ UNCHANGED <<op, info, args, st, orig, repeat, chain>>
Finish ==
    /\ pc = "finish"
    /\ \E rm \in (IF cp.removeWhenDone THEN Remove(fs, args.Source)
                  ELSE {[fs |-> fs, err |-> ""]}) :
          /\ fs' = rm.fs
          /\ errno' = SetErrno(errno, rm.err)
          /\ log' = log
                \o LastProgressUpdate(args, cp)
                \o <<SysEv("close_in", args.Source, TRUE),
                     SysEv("fsync", args.Destination, TRUE),
                     SysEv("close_out", args.Destination, TRUE)>>
                \o (IF cp.removeWhenDone
                    THEN <<SysErr("remove", args.Source, rm.err)>>
                    ELSE <<>>)
                \o SendComplete(args)
    /\ fd' = [in |-> "closed", out |-> "closed"]
    /\ cp' = [cp EXCEPT !.sent = @ + Len(LastProgressUpdate(args, cp))]
    /\ pc' = "done"
    /\ UNCHANGED <<op, info, args, st, orig, repeat, chain>>

\* Where a call is once its error label has run.
AfterSend(events) ==
    IF events # <<>> /\ events[Len(events)].ev = "crash" THEN "crashed" ELSE "done"

\* copyByFdError: close(fd_in); close(fd_out); remove(args.Destination);
\* SendError(args, strerror(errno)).
copyByFdError_NoRemove ==
    /\ pc = "fd_error"
    /\ \E sent \in SendError(args, strerror(errno)) :
          /\ log' = log
                \o <<SysEv("close_in", args.Source, TRUE),
                     SysEv("close_out", args.Destination, TRUE)>>
                \o sent
          /\ pc' = AfterSend(sent)
    /\ fd' = [in |-> "closed", out |-> "closed"]
    /\ UNCHANGED <<fs, errno, op, info, args, st, cp, orig, repeat, chain>>
copyByFdError ==
    /\ pc = "fd_error"
    /\ \E rm \in Remove(fs, args.Destination) :
       \E sent \in SendError(args, strerror(SetErrno(errno, rm.err))) :
          /\ fs' = rm.fs
          /\ errno' = SetErrno(errno, rm.err)
          /\ log' = log
                \o <<SysEv("close_in", args.Source, TRUE),
                     SysEv("close_out", args.Destination, TRUE),
                     SysErr("remove", args.Destination, rm.err)>>
                \o sent
          /\ pc' = AfterSend(sent)
    /\ fd' = [in |-> "closed", out |-> "closed"]
    /\ UNCHANGED <<op, info, args, st, cp, orig, repeat, chain>>

\* copyByPathError and moveError: remove(args.Destination);
\* SendError(args, strerror(errno)).
copyByPathError_NoSend ==
    /\ pc = "path_error"
    /\ \E rm \in Remove(fs, args.Destination) :
          /\ fs' = rm.fs
          /\ errno' = SetErrno(errno, rm.err)
          /\ log' = Append(log, SysErr("remove", args.Destination, rm.err))
    /\ pc' = "done"
    /\ UNCHANGED <<op, info, args, fd, st, cp, orig, repeat, chain>>
copyByPathError ==
    /\ pc = "path_error"
    /\ \E rm \in Remove(fs, args.Destination) :
       \E sent \in SendError(args, strerror(SetErrno(errno, rm.err))) :
          /\ fs' = rm.fs
          /\ errno' = SetErrno(errno, rm.err)
          /\ log' = Append(log, SysErr("remove", args.Destination, rm.err))
                    \o sent
          /\ pc' = AfterSend(sent)
    /\ UNCHANGED <<op, info, args, fd, st, cp, orig, repeat, chain>>

Next ==
    \/ Begin
    \/ Retry
    \/ Chain
    \/ OpenSource
    \/ StatSource
    \/ OpenDestination
    \/ StatDestination
    \/ SameDevice
    \/ Read
    \/ Write
    \/ Finish
    \/ copyByFdError
    \/ copyByPathError

Spec == Init /\ [][Next]_vars

(***************************************************************************)
(* What the properties below read off a state.                             *)
(***************************************************************************)
\* The call has returned to JavaScript.
Returned == pc = "done"

\* The request passed the validation of Args::Args and get.
Validated == op # "none" /\ args.thrown = "none"

IsCompletion(e) == e.ev \in {"complete", "error"}
IsProgress(e)   == e.ev = "progress"
IsSysCall(e)    == e.ev \notin {"complete", "error", "progress", "crash"}

\* The calls of the completion callback and of the progress callback so far.
Completions == SelectSeq(log, IsCompletion)
Progresses  == SelectSeq(log, IsProgress)

\* System call `name` was made and failed / succeeded.
Failed(name)    == \E k \in 1..Len(log) : log[k].ev = name /\ ~log[k].ok
Succeeded(name) == \E k \in 1..Len(log) : log[k].ev = name /\ log[k].ok

\* One of the calls that the code checks has failed.
IoFailure ==
    \/ Failed("open_in")
    \/ Failed("fstat_in")
    \/ Failed("open_out")
    \/ Failed("fstat_out")
    \/ Failed("read")
    \/ Failed("write")

Src == Lookup(fs, args.Source)
Dst == Lookup(fs, args.Destination)
OrigSrc == Lookup(orig, args.Source)

(***************************************************************************)
(* C1.  For a validated request the completion callback is never invoked   *)
(* twice, and when the call returns it has been invoked exactly once: with  *)
(* (errorText, false) if an open, fstat, read or write failed, and with     *)
(* (null, true) if every system call of the operation succeeded.           *)
(***************************************************************************)
C1_CompletionExactlyOnce ==
    Validated =>
        /\ Len(Completions) <= 1
        /\ Returned =>
            /\ Len(Completions) = 1
            /\ Completions[1].tgt = args.ResultCallback
            /\ \/ Completions[1].ev = "error" /\ ~Completions[1].ok
                  /\ Completions[1].err \in
                        {strerror(e) : e \in {"ENOENT", "EACCES", "EIO"}}
               \/ Completions[1].ev = "complete" /\ Completions[1].ok
                  /\ Completions[1].err = "null"
            /\ IoFailure => Completions[1].ev = "error"
            /\ (~IoFailure /\ ~Failed("remove") /\ ~Failed("rename"))
                  => Completions[1].ev = "complete"

\* A copy whose write failed after a first chunk had been written has
\* returned, with its one error completion.
C1_Witness ==
    /\ Returned /\ Validated
    /\ Failed("write")
    /\ cp.progress > 0
    /\ Len(Completions) = 1
    /\ Completions[1].ev = "error"

(***************************************************************************)
(* C2.  After a successful copy the destination holds the source's         *)
(* content, byte for byte: the file at the destination path equals the     *)
(* file at the source path, which (for distinct paths) is the content the  *)
(* source had when the copy began, whatever the reads and the writes       *)
(* transferred at a time.                                                  *)
(***************************************************************************)
C2_CopyContentEqual ==
    (Returned /\ op = "copy" /\ SignalledSuccess) =>
        /\ Src.exists /\ Dst.exists
        /\ Dst.content = Src.content
        /\ args.Source # args.Destination => Dst.content = OrigSrc.content

\* A successful copy of a file of MaxLen bytes to another path, read in more
\* than one chunk, whose last chunk took a retried short write.
C2_Witness ==
    /\ Returned /\ op = "copy" /\ SignalledSuccess
    /\ args.Source # args.Destination
    /\ Len(OrigSrc.content) = MaxLen
    /\ cp.progress > cp.bytes_read
    /\ cp.data > 0
    /\ Dst.content = OrigSrc.content

C4_SameDeviceMove ==
    (/\ Returned
     /\ op = "move"
     /\ \E k \in 1..Len(log) : log[k].ev = "rename"
     /\ args.Source # args.Destination) =>
        /\ Dst.exists
        /\ Dst.content = OrigSrc.content
        /\ ~Src.exists
        /\ ~cp.io

(***************************************************************************)
(* C5.  When the rename of a same-device move has failed, the completion   *)
(* callback has been told of the failure, (errorText, false), never of a   *)
(* success, and nothing was copied.                                        *)
(***************************************************************************)
C5_RenameFailureReported ==
    (Returned /\ Failed("rename")) =>
        /\ SignalledFailure
        /\ ~SignalledSuccess
        /\ ~cp.io

(***************************************************************************)
(* C6.  When a move across devices signals success, the destination holds  *)
(* the source's original content and the source path names no file.        *)
(***************************************************************************)
C6_CrossDeviceMove ==
    (Returned /\ op = "move" /\ cp.removeWhenDone /\ SignalledSuccess) =>
        /\ Dst.exists
        /\ Dst.content = OrigSrc.content
        /\ ~Src.exists

(***************************************************************************)
(* C7.  The `completed` values passed to the progress callback never       *)
(* decrease, and after a successful operation the last of them equals      *)
(* `total`.                                                                *)
(***************************************************************************)
C7_ProgressMonotonic ==
    LET P == Progresses
    IN  /\ \A k \in 1..(Len(P) - 1) : P[k].completed <= P[k + 1].completed
        /\ (Returned /\ SignalledSuccess /\ P # <<>>) =>
              P[Len(P)].completed = P[Len(P)].total

\* Progress was asked for: a fourth argument was passed.
WantsProgress == Validated /\ args.UpdateProgress

(***************************************************************************)
(* C8.  After a successful copy or move that was asked for progress, the   *)
(* last progress update reported completed = total = the st_size fstat     *)
(* gave for the source, and every progress update carried that total.      *)
(***************************************************************************)
C8_FinalProgress ==
    (Returned /\ SignalledSuccess /\ WantsProgress) =>
        LET P == Progresses
        IN  /\ P # <<>>
            /\ P[Len(P)].completed = st.size
            /\ P[Len(P)].total = st.size
            /\ \A k \in 1..Len(P) : P[k].total = st.size

\* A successful stream copy of a file of MaxLen bytes that sent updates
\* inside the loop and then the last one.
C8_Witness ==
    /\ Returned /\ SignalledSuccess /\ WantsProgress
    /\ cp.io
    /\ st.size = MaxLen
    /\ Len(Progresses) >= 3
    /\ Progresses[1].completed < st.size
    /\ Progresses[Len(Progresses)].completed = st.size

(***************************************************************************)
(* C9, as claimed.  The completion result goes to the third argument and   *)
(* progress updates go only to the fourth; with three arguments no         *)
(* progress call is made; the completion is delivered exactly once.        *)
(***************************************************************************)
C9_CompletionThirdProgressFourth ==
    Validated =>
        /\ \A k \in 1..Len(log) :
              /\ IsCompletion(log[k]) => log[k].tgt = 3
              /\ IsProgress(log[k]) => Len(info) = 4 /\ log[k].tgt = 4
        /\ Returned => Len(Completions) = 1

(***************************************************************************)
(* C9, amended.  With four arguments the completion result goes, exactly   *)
(* once, to the fourth argument and progress updates go only to the third; *)
(* with three arguments the third receives the completion result and no    *)
(* progress call is made.                                                  *)
(***************************************************************************)
C9_CompletionLastProgressThird ==
    Validated =>
        /\ \A k \in 1..Len(log) :
              /\ IsCompletion(log[k]) =>
                    log[k].tgt = (IF Len(info) = 4 THEN 4 ELSE 3)
              /\ IsProgress(log[k]) => Len(info) = 4 /\ log[k].tgt = 3
        /\ Returned => Len(Completions) = 1

\* A call with four arguments has returned: its progress updates went to
\* the third argument and its completion to the fourth.
C9_Witness ==
    /\ Returned /\ Validated
    /\ Len(info) = 4
    /\ Progresses # <<>>
    /\ \A k \in 1..Len(Progresses) : Progresses[k].tgt = 3
    /\ Len(Completions) = 1
    /\ Completions[1].tgt = 4

(***************************************************************************)
(* C10.  A call whose arguments fail validation makes no system call on    *)
(* any path and invokes neither callback.                                  *)
(***************************************************************************)
C10_NoIoOnInvalidRequest ==
    (op # "none" /\ args.thrown # "none") =>
        \A k \in 1..Len(log) :
            /\ ~IsSysCall(log[k])
            /\ ~IsCompletion(log[k])
            /\ ~IsProgress(log[k])

\* The calls whose failure the code checks and reports.
CheckedCalls == {"open_in", "fstat_in", "open_out", "fstat_out", "read", "write"}

(***************************************************************************)
(* C11.  The error text passed to the completion callback is the text of   *)
(* the errno of the call that failed (the open, fstat, read or write that  *)
(* sent the operation to its error label), not that of a close or remove   *)
(* made between the failure and the report.  Stated for validated          *)
(* requests, which the claim covers.                                       *)
(***************************************************************************)
C11_ErrorTextOfFailingCall ==
    Validated =>
        \A k \in 1..Len(log) :
            log[k].ev = "error" =>
                \E j \in 1..(k - 1) :
                    /\ log[j].ev \in CheckedCalls
                    /\ ~log[j].ok
                    /\ log[k].err = strerror(log[j].err)

\* How many events `name` the call has made, and how many succeeded.
Count(name)   == Len(SelectSeq(log, LAMBDA e : e.ev = name))
CountOk(name) == Len(SelectSeq(log, LAMBDA e : e.ev = name /\ e.ok))

\* The completion callback has been called, or the call through it tried.
Reported == \E k \in 1..Len(log) : log[k].ev \in {"complete", "error", "crash"}

(***************************************************************************)
(* C12.  Each handle the operation opened is closed exactly once: no       *)
(* handle is closed that was not opened, none is closed twice, and when    *)
(* the completion callback is invoked (and when the call returns) no       *)
(* handle of the operation is open.                                        *)
(***************************************************************************)
C12_HandlesClosedOnce ==
    /\ Count("close_in") <= CountOk("open_in")
    /\ Count("close_out") <= CountOk("open_out")
    /\ CountOk("open_in") <= 1 /\ CountOk("open_out") <= 1
    /\ fd.in = "open" <=> (CountOk("open_in") = 1 /\ Count("close_in") = 0)
    /\ fd.out = "open" <=> (CountOk("open_out") = 1 /\ Count("close_out") = 0)
    /\ (Reported \/ Returned) =>
          /\ fd.in # "open" /\ fd.out # "open"
          /\ Count("close_in") = CountOk("open_in")
          /\ Count("close_out") = CountOk("open_out")

\* A call whose destination could not be opened has returned: the source
\* handle it had opened is closed, once.
C12_Witness ==
    /\ Returned
    /\ Failed("open_out")
    /\ CountOk("open_in") = 1
    /\ Count("close_in") = 1
    /\ fd.in = "closed" /\ fd.out = "none"

(***************************************************************************)
(* C13.  After a successful copy to another path the destination carries   *)
(* the permission bits of the source, also when the destination existed    *)
(* before the call with other bits.                                        *)
(***************************************************************************)
C13_DestinationModeIsSourceMode ==
    (Returned /\ op = "copy" /\ SignalledSuccess
        /\ args.Source # args.Destination) =>
            /\ Dst.exists
            /\ Dst.mode = OrigSrc.mode

(***************************************************************************)
(* C14.  Round trip: for distinct paths A, B, C, after a successful        *)
(* copy(A, B) followed by a successful copy(B, C), C holds the bytes A     *)
(* held before the first copy, A is as it was before the first copy, and   *)
(* B is as the first copy left it.                                         *)
(***************************************************************************)
C14_RoundTrip ==
    (Returned /\ chain.on /\ SignalledSuccess) =>
        /\ Dst.exists
        /\ Dst.content = chain.first[chain.A].content
        /\ fs[chain.A] = chain.first[chain.A]
        /\ Src = OrigSrc
        /\ Src.content = chain.first[chain.A].content

\* Both copies succeeded, A held MaxLen bytes and C held other bytes before.
C14_Witness ==
    /\ Returned /\ chain.on /\ SignalledSuccess
    /\ Len(chain.first[chain.A].content) = MaxLen
    /\ chain.first[args.Destination].exists
    /\ chain.first[args.Destination].content # chain.first[chain.A].content
    /\ Dst.content = chain.first[chain.A].content

(***************************************************************************)
(* C15.  The retrying write of a chunk terminates for every sequence of    *)
(* results of write(), a 0-byte transfer included: each call of doWrite    *)
(* below the first has fewer bytes left to write than the one above it,    *)
(* so the calls on the stack plus the bytes left never exceed the bytes    *)
(* of the chunk.                                                           *)
(***************************************************************************)
C15_WriteRetryTerminates ==
    pc = "write" =>
        /\ cp.datalen > 0
        /\ cp.depth + cp.datalen <= cp.bytes_read

\* The names of the events of the call, in order.
Names == [k \in 1..Len(log) |-> log[k].ev]

EndsWith(s, t) ==
    /\ Len(s) >= Len(t)
    /\ SubSeq(s, Len(s) - Len(t) + 1, Len(s)) = t

\* How Copy ends after the read loop: lines 213-224, and lines 227-232.
SuccessTail ==
    (IF WantsProgress THEN <<"progress">> ELSE <<>>)
        \o <<"close_in", "fsync", "close_out">>
        \o (IF cp.removeWhenDone THEN <<"remove">> ELSE <<>>)
        \o <<"complete">>
FailureTail == <<"close_in", "close_out", "remove", "error">>

(***************************************************************************)
(* C16.  A successful stream copy ends with: the final progress update     *)
(* (inputSize, inputSize), close of the source handle, fsync and close of  *)
(* the destination handle, for a move the removal of the source, and the   *)
(* success completion; before these come only the opens and stats and,     *)
(* after them, the in-loop progress updates.  A stream copy whose read or  *)
(* write failed ends with both closes, the removal of the destination and  *)
(* the failure completion.  A completion is always the last event.         *)
(***************************************************************************)
C16_EventOrder ==
    /\ \A k \in 1..Len(log) :
          log[k].ev \in {"complete", "error", "crash"} => k = Len(log)
    /\ (Validated /\ Returned /\ cp.io /\ SignalledSuccess) =>
          /\ EndsWith(Names, SuccessTail)
          /\ LET first == Len(log) - Len(SuccessTail) + 1
             IN  /\ WantsProgress =>
                        /\ log[first].completed = cp.inputSize
                        /\ log[first].total = cp.inputSize
                 /\ \A k \in 1..(first - 1) :
                        /\ log[k].ev \in {"open_in", "fstat_in", "open_out",
                                          "fstat_out", "progress"}
                        /\ \A j \in 1..(k - 1) :
                              log[j].ev = "progress" => log[k].ev = "progress"
                 /\ cp.removeWhenDone =>
                        log[Len(log) - 1].path = args.Source
    /\ (Validated /\ Returned /\ cp.io
            /\ (Failed("read") \/ Failed("write"))) =>
          /\ EndsWith(Names, <<"read">> \o FailureTail)
                \/ EndsWith(Names, <<"write">> \o FailureTail)
          /\ ~log[Len(log) - 4].ok
          /\ log[Len(log) - 1].path = args.Destination

\* A cross-device move with progress that succeeded after two in-loop
\* updates and the final one, and removed its source.
C16_Witness ==
    /\ Returned /\ Validated /\ cp.io
    /\ WantsProgress
    /\ op = "move" /\ SignalledSuccess
    /\ Count("progress") >= 3
    /\ CountOk("remove") = 1

(***************************************************************************)
(* The throttling of Copy's loop on its own: Copy(in, out, inputSize,      *)
(* args, false) for every inputSize in 0..MaxSize, with progress asked     *)
(* for, reads that deliver inputSize bytes in all and writes that          *)
(* succeed.  Only the counters of the loop are kept; the events are        *)
(* counted in cp.sent.                                                     *)
(***************************************************************************)
ThrottleInit ==
    /\ fs = [p \in Paths |-> NoFile]
    /\ errno = "0"
    /\ pc = "read"
    /\ op = "copy"
    /\ info = <<Str("a"), Str("b"), Fn, Fn>>
    /\ args = Args(info)
    /\ fd = [in |-> "open", out |-> "open"]
    /\ \E inputSize \in 0..MaxSize :
          /\ st = [NoStat EXCEPT !.size = inputSize]
          /\ cp = EnterCopy(inputSize, FALSE)
    /\ log = <<>>
    /\ orig = fs
    /\ repeat = FALSE
    /\ chain = NoChain

\* One pass of the loop: read delivers n > 0 bytes of those left, doWrite
\* writes them, the counters are updated (lines 196-208).
ThrottleChunk ==
    /\ pc = "read"
    /\ \E n \in 1..Min(cp.inputSize - cp.progress, Min(BUFFER_SIZE, MaxChunk)) :
          LET d == ChunkDone([cp EXCEPT !.bytes_read = n], args)
          IN  cp' = [d.cp EXCEPT !.sent = @ + Len(d.events)]
    /\ UNCHANGED <<fs, errno, pc, op, info, args, fd, st, log, orig, repeat, chain>>

\* read returns 0 at the end of the input: the last update (line 213).
ThrottleFinish ==
    /\ pc = "read"
    /\ cp.progress = cp.inputSize
    /\ cp' = [cp EXCEPT !.bytes_read = 0,
                        !.sent = @ + Len(LastProgressUpdate(args, cp))]
    /\ pc' = "done"
    /\ UNCHANGED <<fs, errno, op, info, args, fd, st, log, orig, repeat, chain>>

ThrottleNext == ThrottleChunk \/ ThrottleFinish

ThrottleSpec == ThrottleInit /\ [][ThrottleNext]_vars

(***************************************************************************)
(* C17.  Progress throttling: an in-loop update is sent only when more     *)
(* than inputSize / 100 bytes have accumulated since the previous one, so  *)
(* each in-loop update stands for at least inputSize \div 100 + 1 bytes    *)
(* read, and one operation whose reads sum to inputSize sends at most 100  *)
(* progress updates, the last one included.                                *)
(***************************************************************************)
C17_AtMost100Updates ==
    /\ cp.sent <= 100
    /\ cp.sinceLastUpdate <= cp.bytesPerUpdate
    /\ pc = "read" =>
          cp.sent * (cp.bytesPerUpdate + 1) + cp.sinceLastUpdate <= cp.progress

\* An operation that sent exactly 100 updates: 99 in the loop and the last.
C17_Witness ==
    /\ pc = "done"
    /\ cp.progress = cp.inputSize
    /\ cp.sent = 100

\* The file at the destination path when the call began.
OrigDst == Lookup(orig, args.Destination)

(***************************************************************************)
(* C18.  A copy or move that failed at the open or the stat of its source, *)
(* before it opened the destination, leaves the destination path as it     *)
(* was: a file that was there before the call is still there with the      *)
(* same content.                                                           *)
(***************************************************************************)
C18_EarlyFailureKeepsDestination ==
    (Validated /\ Returned /\ ~Succeeded("open_out") /\ ~Failed("open_out")
        /\ (Failed("open_in") \/ Failed("fstat_in"))) =>
            Dst = OrigDst

(***************************************************************************)
(* C19.  No data loss on move: after any move of an existing source,       *)
(* successful or failed, the source's original content is in full at the   *)
(* source path or at the destination path.                                 *)
(***************************************************************************)
C19_MoveKeepsContent ==
    (Validated /\ Returned /\ op = "move" /\ OrigSrc.exists) =>
        \/ Src.exists /\ Src.content = OrigSrc.content
        \/ Dst.exists /\ Dst.content = OrigSrc.content

(***************************************************************************)
(* C20.  Copy never alters its source: after any copy of an existing       *)
(* source, successful or failed, the file at the source path exists with   *)
(* the content and mode it had before the call.                            *)
(***************************************************************************)
C20_CopyKeepsSource ==
    (Validated /\ Returned /\ op = "copy" /\ OrigSrc.exists) =>
        Src = OrigSrc

====
